---- MODULE Spec2Model ----
(***************************************************************************)
(* A model of minipre (src/src/lib.rs): the line loop of `process`, the    *)
(* conditional state machine it drives, the macro substitution done on     *)
(* every line and the expression evaluator of `#if` / `#elif`.             *)
(*                                                                         *)
(* Text is a sequence of one-character strings, so that trimming,          *)
(* splitting, whole-word matching and parsing are computed on characters   *)
(* as the code computes them.                                              *)
(***************************************************************************)
EXTENDS Integers, Sequences, FiniteSets, TLC

(***************************************************************************)
(* Bounds of the model.                                                    *)
(***************************************************************************)
\* The reader hands over at most this many lines before end-of-input (the
\* line counter, a u32, stays far from wrapping).
MaxLines == 5

(***************************************************************************)
(* Characters.                                                             *)
(***************************************************************************)
\* char::is_digit(10), lib.rs:167
Digit == {"0", "1", "2", "3", "4", "5", "6", "7", "8", "9"}

\* the letters of char::is_ascii_alphanumeric, lib.rs:155
Letter ==
    {"A", "B", "C", "D", "E", "F", "G", "H", "I", "J", "K", "L", "M",
     "N", "O", "P", "Q", "R", "S", "T", "U", "V", "W", "X", "Y", "Z",
     "a", "b", "c", "d", "e", "f", "g", "h", "i", "j", "k", "l", "m",
     "n", "o", "p", "q", "r", "s", "t", "u", "v", "w", "x", "y", "z"}

\* The characters that continue a term (lib.rs:155) and that the regex
\* class \w holds, which decides the word boundary \b of lib.rs:137.
IsWordChar(c) == c \in Digit \cup Letter \cup {"_"}

\* char::is_whitespace on the characters of the modelled lines: what
\* str::trim and str::trim_start remove.
WhiteSpace == {" ", "\t", "\n", "\r"}

(***************************************************************************)
(* String functions of the standard library that the code calls.           *)
(***************************************************************************)
RECURSIVE trim_start(_)
trim_start(s) ==
    IF s # <<>> /\ Head(s) \in WhiteSpace THEN trim_start(Tail(s)) ELSE s

RECURSIVE trim_end(_)
trim_end(s) ==
    IF s # <<>> /\ s[Len(s)] \in WhiteSpace
    THEN trim_end(SubSeq(s, 1, Len(s) - 1))
    ELSE s

trim(s) == trim_end(trim_start(s))

\* str::starts_with
starts_with(s, pat) ==
    /\ Len(pat) <= Len(s)
    /\ SubSeq(s, 1, Len(pat)) = pat

\* The index of the first occurrence of pat in s at or after i; 0 if none.
RECURSIVE find_from(_, _, _)
find_from(s, pat, i) ==
    IF i + Len(pat) - 1 > Len(s) THEN 0
    ELSE IF SubSeq(s, i, i + Len(pat) - 1) = pat THEN i
    ELSE find_from(s, pat, i + 1)

\* s.splitn(2, pat): the piece before the first pat, and the piece after it
\* (has2 is FALSE when pat does not occur and there is no second piece).
splitn2(s, pat) ==
    LET i == find_from(s, pat, 1) IN
    IF i = 0
    THEN [first |-> s, has2 |-> FALSE, second |-> <<>>]
    ELSE [first |-> SubSeq(s, 1, i - 1), has2 |-> TRUE,
          second |-> SubSeq(s, i + Len(pat), Len(s))]

(***************************************************************************)
(* Context: the macro table and the matcher built from it.                 *)
(*                                                                         *)
(* defs (a BTreeMap<String, String>) is a sequence of [name, value]        *)
(* records in the key order of the map; names are unique.                  *)
(***************************************************************************)
\* Context::get_macro: the index of the macro called name in d; 0 if absent.
get_macro(d, name) ==
    IF \E k \in 1..Len(d) : d[k].name = name
    THEN CHOOSE k \in 1..Len(d) : d[k].name = name
    ELSE 0

\* Context::build_regex: "$_", which matches nowhere, for an empty table;
\* otherwise \b(?:k1|k2|...)\b over the keys in map order.
build_regex(d) ==
    IF d = <<>>
    THEN [never |-> TRUE, alts |-> <<>>]
    ELSE [never |-> FALSE, alts |-> [k \in 1..Len(d) |-> d[k].name]]

\* The regex assertion \b before position i of s (1 <= i <= Len(s) + 1):
\* exactly one of the characters around it is a word character.
word_boundary(s, i) ==
    LET before == i > 1 /\ IsWordChar(s[i - 1])
        after == i <= Len(s) /\ IsWordChar(s[i])
    IN before # after

\* alt_matches without the two \b assertions: the name matches wherever its
\* letters stand, inside a longer word too.
alt_matches_anywhere(s, i, alt) ==
    /\ i + Len(alt) - 1 <= Len(s)
    /\ SubSeq(s, i, i + Len(alt) - 1) = alt

\* Whether alternative alt of the pattern matches s at position i.
alt_matches(s, i, alt) ==
    /\ word_boundary(s, i)
    /\ i + Len(alt) - 1 <= Len(s)
    /\ SubSeq(s, i, i + Len(alt) - 1) = alt
    /\ word_boundary(s, i + Len(alt))

\* The match of the regex that starts at position i of s: the first
\* alternative, in pattern order, that matches there; <<>> if none.
match_at(regex, s, i) ==
    IF regex.never \/ ~ \E k \in 1..Len(regex.alts) : alt_matches(s, i, regex.alts[k])
    THEN <<>>
    ELSE LET k == CHOOSE k \in 1..Len(regex.alts) :
                      /\ alt_matches(s, i, regex.alts[k])
                      /\ \A j \in 1..(k - 1) : ~ alt_matches(s, i, regex.alts[j])
         IN regex.alts[k]

\* Context::replacer: the value of the macro whose name was matched.
replacer(d, matched) == d[get_macro(d, matched)].value

\* One step of Regex::replace_all at position i of s, m being the match that
\* starts there: the replacer's text and on after the match, or the
\* character as it is and on after it.
RECURSIVE replace_from(_, _, _, _)
replace_step(regex, d, s, i, m) ==
    IF m # <<>>
    THEN replacer(d, m) \o replace_from(regex, d, s, i + Len(m))
    ELSE <<s[i]>> \o replace_from(regex, d, s, i + 1)

\* Regex::replace_all from position i on: leftmost matches, not overlapping,
\* each replaced by the replacer's text; the inserted text is not scanned.
replace_from(regex, d, s, i) ==
    IF i > Len(s) THEN <<>> ELSE replace_step(regex, d, s, i, match_at(regex, s, i))

\* replace_all scanning its own result once more.
replace_all_rescanning(regex, d, s) ==
    replace_from(regex, d, replace_from(regex, d, s, 1), 1)

\* Regex::replace_all(&buf, replacer) (lib.rs:288).
replace_all(regex, d, s) == replace_from(regex, d, s, 1)

(***************************************************************************)
(* The expression evaluator.  Each function takes the rest of the          *)
(* expression and returns a Result together with the rest left after it    *)
(* (the code advances `expr: &mut &str`).                                  *)
(***************************************************************************)
Ok(v, rest) == [ok |-> TRUE, val |-> v, line |-> 0, msg |-> "", expr |-> rest]

SyntaxErr(line, msg, rest) ==
    [ok |-> FALSE, val |-> FALSE, line |-> line, msg |-> msg, expr |-> rest]

\* Context::skip_whitespace
skip_whitespace(expr) == trim_start(expr)

\* The index of the first character of expr that cannot continue a term;
\* Len(expr) + 1 if there is none (lib.rs:154-156).
RECURSIVE term_end(_, _)
term_end(expr, i) ==
    IF i > Len(expr) \/ ~ IsWordChar(expr[i]) THEN i ELSE term_end(expr, i + 1)

\* The value of a term already cut from the expression (lib.rs:160-175),
\* with a digit token true unless it is "0", the way C reads a number.
term_value_nonzero(term, rest, line) ==
    IF term = <<>>
    THEN SyntaxErr(line, "Expected term, found nothing", rest)
    ELSE IF Head(term) \in Digit
    THEN Ok(term # <<"0">>, rest)
    ELSE SyntaxErr(line, "Undefined identifier", rest)

\* The value of a term, with an unknown identifier false instead of an error,
\* the way C reads an undefined name.
term_value_unknown_false(term, rest, line) ==
    IF term = <<>>
    THEN SyntaxErr(line, "Expected term, found nothing", rest)
    ELSE IF Head(term) \in Digit
    THEN Ok(term = <<"1">>, rest)
    ELSE Ok(FALSE, rest)

\* The value of a term, with a digit token that is neither "0" nor "1" an
\* error.
term_value_strict(term, rest, line) ==
    IF term = <<>>
    THEN SyntaxErr(line, "Expected term, found nothing", rest)
    ELSE IF term \in {<<"0">>, <<"1">>}
    THEN Ok(term = <<"1">>, rest)
    ELSE IF Head(term) \in Digit
    THEN SyntaxErr(line, "Invalid literal", rest)
    ELSE SyntaxErr(line, "Undefined identifier", rest)

\* The value of a term already cut from the expression (lib.rs:160-175):
\* an error if it is empty, `term == "1"` if it starts with a digit, an
\* error otherwise.
term_value(term, rest, line) ==
    IF term = <<>>
    THEN SyntaxErr(line, "Expected term, found nothing", rest)
    ELSE IF Head(term) \in Digit
    THEN Ok(term = <<"1">>, rest)
    ELSE SyntaxErr(line, "Undefined identifier", rest)

\* The term expr[0..index] and the rest expr[index..] (lib.rs:157-158).
term_at(expr, index, line) ==
    term_value(SubSeq(expr, 1, index - 1), SubSeq(expr, index, Len(expr)), line)

\* eval_term after skip_whitespace.
term_of(expr, line) == term_at(expr, term_end(expr, 1), line)

\* Context::eval_term
eval_term(expr, line) == term_of(skip_whitespace(expr), line)

\* The `while expr.starts_with("!")` loop of eval_unary: the negate flag and
\* the expression left when it ends.
RECURSIVE unary_loop(_, _)
unary_loop(negate, expr) ==
    IF starts_with(expr, <<"!">>)
    THEN unary_loop(~ negate, skip_whitespace(Tail(expr)))
    ELSE [negate |-> negate, expr |-> expr]

\* Ok(negate ^ term?), t being the Result of eval_term (lib.rs:186).
negated(negate, t) == IF t.ok THEN Ok(negate # t.val, t.expr) ELSE t

\* eval_unary from the end of its loop, l being the loop's outcome.
unary_of(l, line) == negated(l.negate, eval_term(l.expr, line))

\* Context::eval_unary
eval_unary(expr, line) == unary_of(unary_loop(FALSE, skip_whitespace(expr)), line)

\* The `while expr.starts_with("==")` loop of eval_eq, entered with the
\* result so far and the expression already skipped of whitespace; u is the
\* Result of the eval_unary of one turn (lib.rs:193-194).
RECURSIVE eq_loop(_, _, _)
\* One turn of the loop with `result ^= u` for `result ^= !u`: == read as
\* "differs from".
eq_turn_differs(result, u, line) ==
    IF u.ok
    THEN eq_loop(result # u.val, skip_whitespace(u.expr), line)
    ELSE u

eq_turn(result, u, line) ==
    IF u.ok
    THEN eq_loop(result # (~ u.val), skip_whitespace(u.expr), line)
    ELSE u

eq_loop(result, expr, line) ==
    IF starts_with(expr, <<"=", "=">>)
    THEN eq_turn(result, eval_unary(SubSeq(expr, 3, Len(expr)), line), line)
    ELSE Ok(result, expr)

\* eval_eq from its first eval_unary on, u being its Result.
eq_of(u, line) ==
    IF u.ok THEN eq_loop(u.val, skip_whitespace(u.expr), line) ELSE u

\* Context::eval_eq
eval_eq(expr, line) == eq_of(eval_unary(expr, line), line)

\* evaluate from its eval_eq on, r being its Result and rest the expression
\* left, skipped of whitespace (lib.rs:200-207).
end_of_line(r, rest, line) ==
    IF ~ r.ok THEN r
    ELSE IF rest # <<>>
    THEN SyntaxErr(line, "Expected end-of-line", rest)
    ELSE r

evaluated(r, line) == end_of_line(r, skip_whitespace(r.expr), line)

\* Context::evaluate
evaluate(expr, line) == evaluated(eval_eq(expr, line), line)

(***************************************************************************)
(* The inputs the model draws from: macro tables and input lines.          *)
(***************************************************************************)
Macro(n, v) == [name |-> n, value |-> v]

FOO == <<"F", "O", "O">>
BAR == <<"B", "A", "R">>

\* The macro tables a run may be given (Context::new followed by define
\* calls); each is in key order, as the BTreeMap keeps it.
Tables ==
    { <<>>,
      << Macro(FOO, <<"1">>) >>,
      << Macro(FOO, <<"0">>) >>,
      << Macro(FOO, <<"0", " ", "=", "=", " ", "0">>) >>,
      << Macro(FOO, <<"!", "0">>) >>,
      << Macro(FOO, <<"a", "b", "c">>) >>,
      << Macro(FOO, <<"1", "0">>) >>,
      << Macro(BAR, <<"1">>), Macro(FOO, <<"0">>) >> }

LinePlainA == <<"A", "\n">>
LinePlainFoo == <<" ", "F", "O", "O", " ", "x", "\n">>
LineIf1 == <<"#", "i", "f", " ", "1", "\n">>
LineIf0 == <<"#", "i", "f", " ", "0", "\n">>
LineIfFoo == <<"#", "i", "f", " ", "F", "O", "O", "\n">>
LineIfNotFoo == <<" ", "#", "i", "f", " ", "!", "F", "O", "O", "\n">>
LineIfBar == <<"#", "i", "f", " ", "B", "A", "R", "\n">>
LineIfBad == <<"#", "i", "f", " ", "1", " ", "1", "\n">>
LineIfNone == <<"#", "i", "f", "\n">>
LineElif1 == <<"#", "e", "l", "i", "f", " ", "1", "\n">>
LineElifFoo == <<"#", "e", "l", "i", "f", " ", "F", "O", "O", "\n">>
LineElifBar == <<"#", "e", "l", "i", "f", " ", "0", "=", "=", "B", "A", "R", "\n">>
LineElse == <<"#", "e", "l", "s", "e", "\n">>
LineEndif == <<"#", "e", "n", "d", "i", "f", " ", "/", "/", "x", "\n">>
LineEndifExpr == <<"#", "e", "n", "d", "i", "f", " ", "x", "\n">>
LineOther == <<"#", "f", "o", "o", "\n">>

\* The lines BufRead::read_line may hand to the loop.
Lines ==
    { LinePlainA, LinePlainFoo,
      LineIf1, LineIf0, LineIfFoo, LineIfNotFoo, LineIfBar, LineIfBad, LineIfNone,
      LineElif1, LineElifFoo, LineElifBar,
      LineElse, LineEndif, LineEndifExpr, LineOther }

\* Texts without a directive line: the input of a run that only substitutes.
LineFooMinusBar == <<"F", "O", "O", "-", "B", "A", "R", "\n">>
LineFooUnderBar == <<"F", "O", "O", "_", "B", "A", "R", "\n">>
LineHashInside == <<"\t", "a", " ", "#", "\r", "\n">>

TextLines == { LineFooMinusBar, LineFooUnderBar, LineHashInside, LinePlainFoo }

\* Macro tables whose values hold macro names: BAR and FOO naming each
\* other, and FOO naming itself and BAR.
TextTables ==
    { <<>>,
      << Macro(FOO, <<"0">>) >>,
      << Macro(BAR, <<"F", "O", "O">>), Macro(FOO, <<"B", "A", "R">>) >>,
      << Macro(BAR, <<"x">>), Macro(FOO, <<"F", "O", "O", " ", "B", "A", "R">>) >> }

\* Directive lines that exercise the evaluator and the split of a directive
\* line into name and expression.
LineIf2 == <<"#", "i", "f", " ", "2", "\n">>
LineIf10 == <<"#", "i", "f", " ", "1", "0", "\n">>
LineIf1x == <<"#", "i", "f", " ", "1", "x", "\n">>
LineIfChain == <<"#", "i", "f", " ", "0", " ", "=", "=", " ", "0", " ", "=", "=", " ", "0", "\n">>
LineIfNotNot == <<"#", "i", "f", " ", "!", "!", "1", "\n">>
LineIfChainNot ==
    <<"#", "i", "f", " ", "1", " ", "=", "=", " ", "!", "0", " ", "=", "=", " ", "!", "!", "0", "\n">>
LineElifNotFoo == <<"#", "e", "l", "i", "f", " ", "!", "F", "O", "O", " ", "=", "=", " ", "0", "\n">>
LineElifNone == <<"#", "e", "l", "i", "f", "\n">>
LineElseExpr == <<"#", "e", "l", "s", "e", " ", "x", "\n">>
LineIfTab1 == <<"#", "i", "f", "\t", "1", "\n">>
LineIfSpaces1 == <<"#", "i", "f", " ", " ", "1", "\n">>
LineEndifNote == <<"#", "e", "n", "d", "i", "f", " ", "/", "/", " ", "n", "o", "t", "e", "\n">>

DirectiveLines ==
    { LinePlainA,
      LineIf1, LineIf0, LineIf2, LineIf10, LineIf1x,
      LineIfChain, LineIfNotNot, LineIfChainNot, LineElifNotFoo,
      LineIfNone, LineElifNone, LineElse, LineElseExpr, LineEndifExpr, LineOther,
      LineIfTab1, LineIfSpaces1, LineEndifNote }

DirectiveTables ==
    { <<>>,
      << Macro(FOO, <<"1">>) >>,
      << Macro(FOO, <<"0">>) >> }

(***************************************************************************)
(* The state of a run of `process`.                                        *)
(***************************************************************************)
VARIABLES
    defs,        \* context.defs, read-only during the run
    regex,       \* the matcher built from defs before the loop
    buf,         \* the line read_line put in buf; <<>> after buf.clear()
    new_line,    \* buf after macro substitution
    substr,      \* new_line trimmed
    name,        \* the directive name of a directive line
    maybe_expr,  \* the Option<&str> after the directive name
    stack,       \* the saved parent states, last pushed last
    state,       \* the current State: "Active", "Inactive" or "Skip"
    line,        \* the line counter
    output,      \* what was written to the output, one element per write_all
    pc,          \* "read": at read_line; "process": at `match name`; "done"
    ret,         \* the Result the run returned, once pc = "done"
    nread,       \* history: how many lines the reader has handed over
    blocks       \* history: one record per open block, parallel to stack

locals == <<buf, new_line, substr, name, maybe_expr>>

vars ==
    <<defs, regex, buf, new_line, substr, name, maybe_expr,
      stack, state, line, output, pc, ret, nread, blocks>>

Running == [tag |-> "Running", line |-> 0, msg |-> ""]
RetOk == [tag |-> "Ok", line |-> 0, msg |-> ""]
RetErr(l, m) == [tag |-> "Err", line |-> l, msg |-> m]

States == {"Active", "Inactive", "Skip"}

None == [some |-> FALSE, val |-> <<>>]
Some(v) == [some |-> TRUE, val |-> v]

\* The state in which the loop of `process` is entered, for a context whose
\* macro table is one of T.
Entered(T) ==
    /\ defs \in T
    /\ regex = build_regex(defs)
    /\ buf = <<>>
    /\ new_line = <<>>
    /\ substr = <<>>
    /\ name = <<>>
    /\ maybe_expr = None
    /\ stack = <<>>
    /\ state = "Active"
    /\ line = 0
    /\ output = <<>>
    /\ pc = "read"
    /\ ret = Running
    /\ nread = 0
    /\ blocks = <<>>

Init == Entered(Tables)

(***************************************************************************)
(* The classification of a line (lib.rs:288-299).                          *)
(***************************************************************************)
is_directive(sub) == starts_with(sub, <<"#">>)

\* substr.splitn(2, "//").next().unwrap().splitn(2, " ")
split_parts(sub) == splitn2(splitn2(sub, <<"/", "/">>).first, <<" ">>)

\* The second part trimmed; None if there is no second part or it is empty.
expr_of(parts) ==
    IF parts.has2 /\ trim(parts.second) # <<>>
    THEN Some(trim(parts.second))
    ELSE None

KwIf == <<"#", "i", "f">>
KwElif == <<"#", "e", "l", "i", "f">>
KwElse == <<"#", "e", "l", "s", "e">>
KwEndif == <<"#", "e", "n", "d", "i", "f">>

(***************************************************************************)
(* The steps of `process`.                                                 *)
(***************************************************************************)
\* return Err(Error::Syntax { line, msg }), also through the ? operator: the
\* run ends and nothing else changes.  (The messages are the code's, without
\* the backquotes around the directive names.)
Return(r) ==
    /\ ret' = r
    /\ pc' = "done"
    /\ UNCHANGED locals

\* The end of the loop body: the locals of the body go, buf.clear(), and
\* back to read_line.
Continue ==
    /\ buf' = <<>>
    /\ new_line' = <<>>
    /\ substr' = <<>>
    /\ name' = <<>>
    /\ maybe_expr' = None
    /\ pc' = "read"
    /\ ret' = ret

\* ReadLine counting only the lines read in state Active.
ReadLine_counts_active ==
    /\ pc = "read"
    /\ nread < MaxLines
    /\ \E l \in Lines : buf' = l
    /\ new_line' = replace_all(regex, defs, buf')
    /\ substr' = trim(new_line')
    /\ name' = IF is_directive(substr') THEN split_parts(substr').first ELSE <<>>
    /\ maybe_expr' = IF is_directive(substr') THEN expr_of(split_parts(substr')) ELSE None
    /\ line' = IF state = "Active" THEN line + 1 ELSE line
    /\ pc' = "process"
    /\ UNCHANGED <<defs, regex, stack, state, output, ret>>

\* read_line returns a line, one of L: line += 1, the macros of the line are
\* replaced and the line is classified (lib.rs:285-299).
ReadFrom(L) ==
    /\ pc = "read"
    /\ line < MaxLines
    /\ \E l \in L : buf' = l
    /\ new_line' = replace_all(regex, defs, buf')
    /\ substr' = trim(new_line')
    /\ name' = IF is_directive(substr') THEN split_parts(substr').first ELSE <<>>
    /\ maybe_expr' = IF is_directive(substr') THEN expr_of(split_parts(substr')) ELSE None
    /\ line' = line + 1
    /\ pc' = "process"
    /\ UNCHANGED <<defs, regex, stack, state, output, ret>>

ReadLine == ReadFrom(Lines)

\* read_line returns 0: the loop ends and the run returns Ok(()).
EndOfInput ==
    /\ pc = "read"
    /\ Return(RetOk)
    /\ UNCHANGED <<defs, regex, stack, state, line, output>>

\* PlainLine writing the trimmed line, which has lost its indentation and
\* its terminator.
PlainLine_trimmed ==
    /\ pc = "process"
    /\ ~ is_directive(substr)
    /\ output' = IF state = "Active" THEN Append(output, substr) ELSE output
    /\ Continue
    /\ UNCHANGED <<defs, regex, stack, state, line>>

\* A line that is not a directive: written if the state is Active.
PlainLine ==
    /\ pc = "process"
    /\ ~ is_directive(substr)
    /\ output' = IF state = "Active" THEN Append(output, new_line) ELSE output
    /\ Continue
    /\ UNCHANGED <<defs, regex, stack, state, line>>

\* The #if arm from the Result of evaluate on, with the test of the result
\* inverted.
IfEvaluated_inverted(r) ==
    IF ~ r.ok
    THEN /\ Return(RetErr(r.line, r.msg))
         /\ UNCHANGED state
    ELSE /\ state' = IF r.val THEN "Inactive" ELSE state
         /\ Continue

\* The #if arm from the Result r of evaluate on (lib.rs:309-311): the error
\* is returned, or the state becomes Inactive if the value is false.
IfEvaluated(r) ==
    IF ~ r.ok
    THEN /\ Return(RetErr(r.line, r.msg))
         /\ UNCHANGED state
    ELSE /\ state' = IF ~ r.val THEN "Inactive" ELSE state
         /\ Continue

\* The #if arm in a state that is not Active, evaluating the expression all
\* the same before it sets Skip.
IfDead_evaluating(r) ==
    IF ~ r.ok
    THEN /\ Return(RetErr(r.line, r.msg))
         /\ UNCHANGED state
    ELSE /\ state' = "Skip"
         /\ Continue

\* DirIf evaluating the expression in every state.
DirIf_always_evaluates ==
    /\ pc = "process"
    /\ is_directive(substr)
    /\ name = KwIf
    /\ IF ~ maybe_expr.some
       THEN /\ Return(RetErr(line, "Expected expression after #if"))
            /\ UNCHANGED <<stack, state>>
       ELSE /\ stack' = Append(stack, state)
            /\ IF state = "Active"
               THEN IfEvaluated(evaluate(maybe_expr.val, line))
               ELSE IfDead_evaluating(evaluate(maybe_expr.val, line))
    /\ UNCHANGED <<defs, regex, line, output>>

\* DirIf saving the state only when it is Active: a block opened in a dead
\* region is not pushed.
DirIf_dead_not_pushed ==
    /\ pc = "process"
    /\ is_directive(substr)
    /\ name = KwIf
    /\ IF ~ maybe_expr.some
       THEN /\ Return(RetErr(line, "Expected expression after #if"))
            /\ UNCHANGED <<stack, state>>
       ELSE IF state = "Active"
            THEN /\ stack' = Append(stack, state)
                 /\ IfEvaluated(evaluate(maybe_expr.val, line))
            ELSE /\ stack' = stack
                 /\ state' = "Skip"
                 /\ Continue
    /\ UNCHANGED <<defs, regex, line, output>>

\* DirIf leaving a block opened in a dead region Inactive instead of Skip,
\* so that its #else can still be taken.
DirIf_dead_inactive ==
    /\ pc = "process"
    /\ is_directive(substr)
    /\ name = KwIf
    /\ IF ~ maybe_expr.some
       THEN /\ Return(RetErr(line, "Expected expression after #if"))
            /\ UNCHANGED <<stack, state>>
       ELSE /\ stack' = Append(stack, state)
            /\ IF state = "Active"
               THEN IfEvaluated(evaluate(maybe_expr.val, line))
               ELSE /\ state' = "Inactive"
                    /\ Continue
    /\ UNCHANGED <<defs, regex, line, output>>

\* "#if"
DirIf ==
    /\ pc = "process"
    /\ is_directive(substr)
    /\ name = KwIf
    /\ IF ~ maybe_expr.some
       THEN /\ Return(RetErr(line, "Expected expression after #if"))
            /\ UNCHANGED <<stack, state>>
       ELSE /\ stack' = Append(stack, state)
            /\ IF state = "Active"
               THEN IfEvaluated(evaluate(maybe_expr.val, line))
               ELSE /\ state' = "Skip"
                    /\ Continue
    /\ UNCHANGED <<defs, regex, line, output>>

\* The #elif arm from the Result r of evaluate on (lib.rs:322-324): the
\* error is returned, or the state becomes Active if the value is true.
ElifEvaluated(r) ==
    IF ~ r.ok
    THEN /\ Return(RetErr(r.line, r.msg))
         /\ UNCHANGED state
    ELSE /\ state' = IF r.val THEN "Active" ELSE state
         /\ Continue

\* DirElif evaluating in every state but Active: every matching branch is
\* taken, not only the first.
DirElif_all_matching ==
    /\ pc = "process"
    /\ is_directive(substr)
    /\ name = KwElif
    /\ IF ~ maybe_expr.some
       THEN /\ Return(RetErr(line, "Expected expression after #elif"))
            /\ UNCHANGED state
       ELSE IF state # "Active"
            THEN ElifEvaluated(evaluate(maybe_expr.val, line))
            ELSE /\ state' = "Skip"
                 /\ Continue
    /\ UNCHANGED <<defs, regex, stack, line, output>>

\* "#elif"
DirElif ==
    /\ pc = "process"
    /\ is_directive(substr)
    /\ name = KwElif
    /\ IF ~ maybe_expr.some
       THEN /\ Return(RetErr(line, "Expected expression after #elif"))
            /\ UNCHANGED state
       ELSE IF state = "Inactive"
            THEN ElifEvaluated(evaluate(maybe_expr.val, line))
            ELSE /\ state' = "Skip"
                 /\ Continue
    /\ UNCHANGED <<defs, regex, stack, line, output>>

\* DirElse activating from Skip as it does from Inactive.
DirElse_from_skip ==
    /\ pc = "process"
    /\ is_directive(substr)
    /\ name = KwElse
    /\ IF maybe_expr.some
       THEN /\ Return(RetErr(line, "Unexpected expression after #else"))
            /\ UNCHANGED state
       ELSE /\ state' = IF state # "Active" THEN "Active" ELSE "Skip"
            /\ Continue
    /\ UNCHANGED <<defs, regex, stack, line, output>>

\* "#else"
DirElse ==
    /\ pc = "process"
    /\ is_directive(substr)
    /\ name = KwElse
    /\ IF maybe_expr.some
       THEN /\ Return(RetErr(line, "Unexpected expression after #else"))
            /\ UNCHANGED state
       ELSE /\ state' = IF state = "Inactive" THEN "Active" ELSE "Skip"
            /\ Continue
    /\ UNCHANGED <<defs, regex, stack, line, output>>

\* DirEndif taking Active when there is nothing to pop.
DirEndif_lenient ==
    /\ pc = "process"
    /\ is_directive(substr)
    /\ name = KwEndif
    /\ IF maybe_expr.some
       THEN /\ Return(RetErr(line, "Unexpected expression after #else"))
            /\ UNCHANGED <<stack, state>>
       ELSE IF stack = <<>>
            THEN /\ state' = "Active"
                 /\ stack' = stack
                 /\ Continue
            ELSE /\ state' = stack[Len(stack)]
                 /\ stack' = SubSeq(stack, 1, Len(stack) - 1)
                 /\ Continue
    /\ UNCHANGED <<defs, regex, line, output>>

\* DirEndif popping the stack but going back to Active whatever was saved.
DirEndif_to_active ==
    /\ pc = "process"
    /\ is_directive(substr)
    /\ name = KwEndif
    /\ IF maybe_expr.some
       THEN /\ Return(RetErr(line, "Unexpected expression after #else"))
            /\ UNCHANGED <<stack, state>>
       ELSE IF stack = <<>>
            THEN /\ Return(RetErr(line, "Unexpected #endif with no matching #if"))
                 /\ UNCHANGED <<stack, state>>
            ELSE /\ state' = "Active"
                 /\ stack' = SubSeq(stack, 1, Len(stack) - 1)
                 /\ Continue
    /\ UNCHANGED <<defs, regex, line, output>>

\* "#endif"
DirEndif ==
    /\ pc = "process"
    /\ is_directive(substr)
    /\ name = KwEndif
    /\ IF maybe_expr.some
       THEN /\ Return(RetErr(line, "Unexpected expression after #else"))
            /\ UNCHANGED <<stack, state>>
       ELSE IF stack = <<>>
            THEN /\ Return(RetErr(line, "Unexpected #endif with no matching #if"))
                 /\ UNCHANGED <<stack, state>>
            ELSE /\ state' = stack[Len(stack)]
                 /\ stack' = SubSeq(stack, 1, Len(stack) - 1)
                 /\ Continue
    /\ UNCHANGED <<defs, regex, line, output>>

\* DirOther writing the line it does not know before it fails.
DirOther_writes ==
    /\ pc = "process"
    /\ is_directive(substr)
    /\ name \notin {KwIf, KwElif, KwElse, KwEndif}
    /\ Return(RetErr(line, "Unrecognised preprocessor directive"))
    /\ output' = IF state = "Active" THEN Append(output, new_line) ELSE output
    /\ UNCHANGED <<defs, regex, stack, state, line>>

\* DirOther failing only in state Active and passing over the line in a
\* region that is not written.
DirOther_only_active ==
    /\ pc = "process"
    /\ is_directive(substr)
    /\ name \notin {KwIf, KwElif, KwElse, KwEndif}
    /\ IF state = "Active"
       THEN Return(RetErr(line, "Unrecognised preprocessor directive"))
       ELSE Continue
    /\ UNCHANGED <<defs, regex, stack, state, line, output>>

\* Any other name starting with "#".
DirOther ==
    /\ pc = "process"
    /\ is_directive(substr)
    /\ name \notin {KwIf, KwElif, KwElse, KwEndif}
    /\ Return(RetErr(line, "Unrecognised preprocessor directive"))
    /\ UNCHANGED <<defs, regex, stack, state, line, output>>

(***************************************************************************)
(* History of the run, kept beside the program's state and read by no      *)
(* step of it: the number of lines handed over, and for each open block    *)
(* (in the order of the stack) the state its #if was seen in, whether its  *)
(* expression is one that fails when evaluated, its value if the code      *)
(* evaluated it, the #elif and #else directives seen since, and how many   *)
(* of its branches began in state Active.                                  *)
(***************************************************************************)
Processed == pc = "process" /\ pc' = "read"

Top(s) == s[Len(s)]

Front(s) == SubSeq(s, 1, Len(s) - 1)

\* The record of a block whose #if is being handled, r being what its
\* expression evaluates to.
Opened(r) ==
    [outer |-> state,
     fails |-> ~ r.ok,
     cond |-> state = "Active" /\ r.val,
     dirs |-> <<>>,
     active |-> IF state' = "Active" THEN 1 ELSE 0]

Record ==
    IF pc = "read" /\ pc' = "process"
    THEN /\ nread' = nread + 1
         /\ blocks' = blocks
    ELSE /\ nread' = nread
         /\ blocks' =
              IF ~ (Processed /\ is_directive(substr)) THEN blocks
              ELSE IF name = KwIf
              THEN Append(blocks, Opened(evaluate(maybe_expr.val, line)))
              ELSE IF name \in {KwElif, KwElse} /\ blocks # <<>>
              THEN [blocks EXCEPT ![Len(blocks)] =
                      [@ EXCEPT !.dirs = Append(@, name),
                                !.active = @ + (IF state' = "Active" THEN 1 ELSE 0)]]
              ELSE IF name = KwEndif
              THEN Front(blocks)
              ELSE blocks

Next ==
    \/ ReadLine /\ Record
    \/ EndOfInput /\ Record
    \/ PlainLine /\ Record
    \/ DirIf /\ Record
    \/ DirElif /\ Record
    \/ DirElse /\ Record
    \/ DirEndif /\ Record
    \/ DirOther /\ Record

Spec == Init /\ [][Next]_vars

\* A run on a text without directive lines: only the substitution acts on
\* what is read.
InitText == Entered(TextTables)

ReadText == ReadFrom(TextLines)

NextText ==
    \/ ReadText /\ Record
    \/ EndOfInput /\ Record
    \/ PlainLine /\ Record

SpecText == InitText /\ [][NextText]_vars

\* A run on the directive lines that exercise the evaluator and the split.
InitDirectives == Entered(DirectiveTables)

ReadDirective == ReadFrom(DirectiveLines)

NextDirectives ==
    \/ ReadDirective /\ Record
    \/ EndOfInput /\ Record
    \/ PlainLine /\ Record
    \/ DirIf /\ Record
    \/ DirElif /\ Record
    \/ DirElse /\ Record
    \/ DirEndif /\ Record
    \/ DirOther /\ Record

SpecDirectives == InitDirectives /\ [][NextDirectives]_vars

(***************************************************************************)
(* Vocabulary of the properties.                                           *)
(***************************************************************************)
\* A step of the loop body on the line in buf.
Handling == pc = "process"

Emitted == output' = Append(output, new_line)

Suppressed == output' = output

Failed(msg) == ret' = RetErr(line, msg) /\ pc' = "done"

Defined(n) == get_macro(defs, n) # 0

ValueOf(n) == defs[get_macro(defs, n)].value

\* #elif* #else: any number of #elif, then one #else, and nothing after it.
ElifsThenElse(dirs) ==
    /\ dirs # <<>>
    /\ Top(dirs) = KwElse
    /\ \A i \in 1..(Len(dirs) - 1) : dirs[i] = KwElif

\* The code evaluates the expression of the directive it is handling.
Evaluating ==
    /\ Handling
    /\ maybe_expr.some
    /\ \/ name = KwIf /\ state = "Active"
       \/ name = KwElif /\ state = "Inactive"

\* e holds an identifier (a maximal run of word characters that does not
\* start with a digit) that is no key of the macro table.
HasUndefinedIdentifier(e) ==
    \E i \in 1..Len(e) : \E j \in i..Len(e) :
        /\ \A k \in i..j : IsWordChar(e[k])
        /\ i = 1 \/ ~ IsWordChar(e[i - 1])
        /\ j = Len(e) \/ ~ IsWordChar(e[j + 1])
        /\ e[i] \notin Digit
        /\ ~ Defined(SubSeq(e, i, j))

\* v is one token of word characters that starts with a digit.
IsDigitToken(v) ==
    /\ v # <<>>
    /\ Head(v) \in Digit
    /\ \A k \in 1..Len(v) : IsWordChar(v[k])

\* What C1 asks of every step.
C2_Step ==
    /\ \A i \in 1..Len(blocks') : blocks'[i].active <= 1
    /\ (Handling /\ name \in {KwElif, KwElse} /\ state \in {"Active", "Skip"})
          => state' # "Active"
    /\ (Handling /\ ~ Suppressed) => (state = "Active" /\ ~ is_directive(substr))

(***************************************************************************)
(* C1.  If the input is exhausted while the state stack is not empty (an   *)
(* #if has no matching #endif), the run fails instead of returning         *)
(* success.  The code returns Ok(()) at end of input whatever the stack    *)
(* holds: this formula is violated.                                        *)
(***************************************************************************)
C1_UnterminatedIfFails == ret.tag = "Ok" => stack = <<>>

(***************************************************************************)
(* C2.  Within one block at most one branch is ever in state Active: no    *)
(* #elif or #else seen in state Active or Skip sets the state to Active,   *)
(* every open block has had at most one branch that began Active, and a    *)
(* plain line is written only in state Active.                             *)
(***************************************************************************)
C2_AtMostOneActiveBranch == [][C2_Step]_vars

\* #if 0 / #elif (true) / #elif / #else: the first #elif took the block, the
\* second #elif and the #else found it taken.
C2_Witness ==
    /\ ret.tag = "Running"
    /\ blocks # <<>>
    /\ Top(blocks).outer = "Active"
    /\ ~ Top(blocks).cond
    /\ Top(blocks).dirs = <<KwElif, KwElif, KwElse>>
    /\ Top(blocks).active = 1
    /\ state = "Skip"

\* What C3 asks of every step.
C3_Step ==
    /\ \A i \in 1..Len(blocks') :
          (blocks'[i].outer = "Active" /\ ElifsThenElse(blocks'[i].dirs))
             => blocks'[i].active = 1
    /\ (Handling /\ ~ is_directive(substr))
          => IF state = "Active" THEN Emitted ELSE Suppressed

(***************************************************************************)
(* C3.  A block opened by #if in state Active, continued by any number of  *)
(* #elif and then one final #else, has exactly one branch that began in    *)
(* state Active, and plain lines are written exactly in state Active: the  *)
(* plain lines of exactly one branch are emitted.                          *)
(***************************************************************************)
C3_ExactlyOneBranch == [][C3_Step]_vars

\* #if (false) / #elif (false) / #else, now at the #endif: the #else branch
\* is the one that was Active.
C3_Witness ==
    /\ Handling
    /\ name = KwEndif
    /\ ~ maybe_expr.some
    /\ blocks # <<>>
    /\ Top(blocks).outer = "Active"
    /\ ~ Top(blocks).cond
    /\ Top(blocks).dirs = <<KwElif, KwElse>>
    /\ Top(blocks).active = 1
    /\ state = "Active"

\* What C4 asks of every step.
C4_Step ==
    (/\ Handling
     /\ is_directive(substr)
     /\ maybe_expr.some
     /\ \/ name = KwIf /\ state \in {"Inactive", "Skip"}
        \/ name = KwElif /\ state \in {"Active", "Skip"})
    => /\ ret' = Running
       /\ pc' = "read"
       /\ state' = "Skip"

(***************************************************************************)
(* C4.  An #if seen in state Inactive or Skip and an #elif seen in state   *)
(* Active or Skip, with an expression present, never evaluate it: the step *)
(* does not fail, whatever the expression, and the new state is Skip.      *)
(***************************************************************************)
C4_DeadBranchNotEvaluated == [][C4_Step]_vars

\* An #if whose expression fails when evaluated was handled in a dead
\* region, and the run goes on.
C4_Witness ==
    /\ ret.tag = "Running"
    /\ blocks # <<>>
    /\ Top(blocks).outer \in {"Inactive", "Skip"}
    /\ Top(blocks).fails
    /\ Top(blocks).dirs = <<>>
    /\ state = "Skip"

\* What C5 asks of every step (as claimed).
C5_OriginalStep ==
    (Evaluating /\ buf \in {LineIfFoo, LineElifFoo} /\ Defined(FOO))
    => /\ ret' = Running
       /\ (state' = "Active") <=> (ValueOf(FOO) = <<"1">>)

(***************************************************************************)
(* C5.  As claimed: when the expression FOO of an #if or #elif is          *)
(* evaluated and FOO is a macro of the table, the term is true if and only *)
(* if the macro's value is exactly "1", and never an error.  The code      *)
(* replaces the name by the value before it parses the directive, so the   *)
(* value is parsed as expression text: this formula is violated.           *)
(***************************************************************************)
C5_Original == [][C5_OriginalStep]_vars

\* What C5 asks of every step (as amended).
C5_AmendedStep ==
    (Evaluating /\ buf \in {LineIfFoo, LineElifFoo} /\ Defined(FOO))
    => LET v == evaluate(ValueOf(FOO), line) IN
       /\ IF v.ok
          THEN /\ ret' = Running
               /\ (state' = "Active") <=> v.val
          ELSE ret' = RetErr(line, v.msg)
       /\ IsDigitToken(ValueOf(FOO))
             => /\ ret' = Running
                /\ (state' = "Active") <=> (ValueOf(FOO) = <<"1">>)

(***************************************************************************)
(* C5, amended.  When the expression FOO of an #if or #elif is evaluated   *)
(* and FOO is a macro of the table, the expression evaluated is the        *)
(* macro's value text: the step fails exactly when the value fails to      *)
(* evaluate as an expression, and otherwise the branch is Active exactly   *)
(* when the value evaluates to true.  A value that is one token starting   *)
(* with a digit never fails and is true only if it is exactly "1".         *)
(***************************************************************************)
C5_MacroTermIsValueText == [][C5_AmendedStep]_vars

\* The run ended at `#if FOO` with FOO defined (as abc): the value was
\* parsed as an expression, and its identifier is undefined.
C5_Witness ==
    /\ pc = "done"
    /\ buf = LineIfFoo
    /\ Defined(FOO)
    /\ ValueOf(FOO) \notin {<<"0">>, <<"1">>}
    /\ ret = RetErr(line, "Undefined identifier")

\* What C6 asks of every step.
C6_Step ==
    (Evaluating /\ HasUndefinedIdentifier(maybe_expr.val))
    => Failed("Undefined identifier")

(***************************************************************************)
(* C6.  When the expression of an #if or #elif is evaluated and holds an   *)
(* identifier that is no key of the macro table, the run fails with        *)
(* "Undefined identifier".  (In the lines of the model every identifier of *)
(* an expression stands where a term is expected.)                         *)
(***************************************************************************)
C6_UndefinedIdentifierFails == [][C6_Step]_vars

\* The run ended at `#elif 0==BAR`, BAR not being a macro.
C6_Witness ==
    /\ pc = "done"
    /\ buf = LineElifBar
    /\ ~ Defined(BAR)
    /\ ret = RetErr(line, "Undefined identifier")

\* What C7 asks of every step.
C7_Step ==
    /\ (/\ Handling
        /\ ~ is_directive(substr)
        /\ blocks # <<>>
        /\ Top(blocks).outer = "Active"
        /\ Top(blocks).dirs = <<>>)
       => IF Top(blocks).cond THEN Emitted ELSE Suppressed
    /\ (/\ Handling
        /\ buf = LineIfNotFoo
        /\ state = "Active"
        /\ Defined(FOO)
        /\ ret' = Running)
       => (state' = "Active") <=> ~ evaluate(ValueOf(FOO), line).val
    /\ (/\ Handling
        /\ name = KwEndif
        /\ blocks # <<>>
        /\ Top(blocks).outer = "Active"
        /\ ret' = Running)
       => state' = "Active"
    /\ (Handling /\ ~ is_directive(substr) /\ state = "Active") => Emitted

(***************************************************************************)
(* C7.  For an #if E seen in state Active, E evaluating without error: a   *)
(* plain line of its first branch is written if and only if E is true;     *)
(* `#if !FOO` makes the branch Active if and only if FOO's value does not  *)
(* evaluate to true; and the matching #endif brings state Active back, in  *)
(* which plain lines are written.                                          *)
(***************************************************************************)
C7_IfEmitsIffTrue == [][C7_Step]_vars

\* Two lines were read after the first one was written: an #if that was
\* evaluated to false and a plain line of its first branch, not written.
C7_Witness ==
    /\ pc = "read"
    /\ nread = 3
    /\ Len(output) = 1
    /\ Len(blocks) = 1
    /\ Top(blocks).outer = "Active"
    /\ ~ Top(blocks).cond
    /\ Top(blocks).dirs = <<>>
    /\ state = "Inactive"

\* What C8 asks of every step (as claimed).
C8_OriginalStep ==
    (Handling /\ is_directive(substr) /\ name = KwEndif)
    => IF stack = <<>>
       THEN Failed("Unexpected #endif with no matching #if")
       ELSE ret'.msg # "Unexpected #endif with no matching #if"

(***************************************************************************)
(* C8.  As claimed: an #endif handled while the stack is empty fails with  *)
(* "Unexpected #endif with no matching #if", and with a non-empty stack    *)
(* never fails with it.  An #endif followed by an expression fails with    *)
(* another message before the stack is looked at: this formula is          *)
(* violated.                                                               *)
(***************************************************************************)
C8_Original == [][C8_OriginalStep]_vars

\* What C8 asks of every step (as amended).
C8_AmendedStep ==
    (Handling /\ is_directive(substr) /\ name = KwEndif)
    => IF stack = <<>>
       THEN ~ maybe_expr.some => Failed("Unexpected #endif with no matching #if")
       ELSE ret'.msg # "Unexpected #endif with no matching #if"

(***************************************************************************)
(* C8, amended.  An #endif that carries no expression, handled while the   *)
(* stack is empty, fails with "Unexpected #endif with no matching #if";    *)
(* an #endif handled with a non-empty stack never fails with it.           *)
(***************************************************************************)
C8_UnmatchedEndifFails == [][C8_AmendedStep]_vars

\* The run ended at an #endif with nothing to close, after other lines.
C8_Witness ==
    /\ pc = "done"
    /\ name = KwEndif
    /\ stack = <<>>
    /\ nread > 1
    /\ ret = RetErr(line, "Unexpected #endif with no matching #if")

\* What C9 asks of every step.
C9_Step ==
    /\ ret'.tag = "Err" => (output' = output /\ pc' = "done")
    /\ ret.tag = "Err" => UNCHANGED vars

(***************************************************************************)
(* C9.  A syntax failure ends the run at the failing line: the failing     *)
(* step writes nothing, and once the run has returned no line is read and  *)
(* nothing is written.                                                     *)
(***************************************************************************)
C9_FailureAborts == [][C9_Step]_vars

\* The run failed after it had written a line, with input still to come.
C9_Witness ==
    /\ ret.tag = "Err"
    /\ pc = "done"
    /\ output # <<>>
    /\ nread < MaxLines

(***************************************************************************)
(* C10.  The line counter is the number of lines read so far, whatever the *)
(* lines were, and the line number of a syntax error is the 1-based        *)
(* position of the line being handled.                                     *)
(***************************************************************************)
C10_LineNumberIsPosition ==
    /\ line = nread
    /\ ret.tag = "Err" => (ret.line = nread /\ ret.line >= 1)

\* An error on the fourth line, inside an open block, after a plain line was
\* written and another line suppressed.
C10_Witness ==
    /\ ret.tag = "Err"
    /\ ret.line = 4
    /\ stack # <<>>
    /\ state # "Active"
    /\ Len(output) = 1

(***************************************************************************)
(* Vocabulary of the properties of the substitution.                       *)
(***************************************************************************)
\* w stands in s at position i as a whole word: neither the character
\* before it nor the one after it is a word character.
WholeWordAt(s, i, w) ==
    /\ i + Len(w) - 1 <= Len(s)
    /\ SubSeq(s, i, i + Len(w) - 1) = w
    /\ i = 1 \/ ~ IsWordChar(s[i - 1])
    /\ i + Len(w) > Len(s) \/ ~ IsWordChar(s[i + Len(w)])

\* s holds the name of a macro of the table as a whole word.
HasMacroWord(s) ==
    \E k \in 1..Len(defs) : \E i \in 1..Len(s) : WholeWordAt(s, i, defs[k].name)

MinusBarLine == <<"-", "B", "A", "R", "\n">>

\* What C11 asks of every step.
C11_Step ==
    /\ (Handling /\ ~ is_directive(trim(buf)) /\ ~ HasMacroWord(buf))
          => output' = Append(output, buf)
    /\ Processed => Len(output') = nread'

(***************************************************************************)
(* C11.  In a run on a text without directive lines, whatever the macro    *)
(* table: a line that holds no macro name as a whole word is written as it *)
(* was read, indentation and line terminator included, after the lines     *)
(* written before it; and once a line is handled, as many lines have been  *)
(* written as were read.  So a text without any macro name comes out       *)
(* unchanged, line for line.                                               *)
(***************************************************************************)
C11_PassThrough == [][C11_Step]_vars

\* With FOO a macro, the lines `<TAB>a #<CR><LF>` and `FOO_BAR` were read and
\* written as they were.
C11_Witness ==
    /\ Defined(FOO)
    /\ pc = "read"
    /\ nread = 2
    /\ output = <<LineHashInside, LineFooUnderBar>>

(***************************************************************************)
(* C12.  On the line in hand the substitution has replaced a macro name    *)
(* only where it stood as a whole word: with FOO a macro and BAR not,      *)
(* `FOO-BAR` has become FOO's value followed by `-BAR` (`0-BAR` with       *)
(* FOO=0); `FOO_BAR` is as it was read; and a line that differs from the   *)
(* line read held a macro name as a whole word.                            *)
(***************************************************************************)
C12_WholeWordOnly ==
    pc = "process" =>
        /\ (buf = LineFooMinusBar /\ Defined(FOO) /\ ~ Defined(BAR))
              => new_line = ValueOf(FOO) \o MinusBarLine
        /\ (buf = LineFooMinusBar /\ defs = << Macro(FOO, <<"0">>) >>)
              => new_line = <<"0">> \o MinusBarLine
        /\ buf = LineFooUnderBar => new_line = buf
        /\ new_line # buf => HasMacroWord(buf)

\* With FOO=0, `FOO_BAR` was written unchanged and `FOO-BAR` has become
\* `0-BAR`.
C12_Witness ==
    /\ defs = << Macro(FOO, <<"0">>) >>
    /\ output = <<LineFooUnderBar>>
    /\ pc = "process"
    /\ buf = LineFooMinusBar
    /\ new_line = <<"0">> \o MinusBarLine

\* What C13 asks of every step (as claimed).
C13_OriginalStep ==
    (Evaluating /\ IsDigitToken(maybe_expr.val))
    => IF maybe_expr.val = <<"1">>
       THEN ret' = Running /\ state' = "Active"
       ELSE IF maybe_expr.val = <<"0">>
       THEN ret' = Running /\ state' # "Active"
       ELSE ret'.tag = "Err" /\ pc' = "done"

(***************************************************************************)
(* C13, as claimed.  When the expression evaluated is one token that       *)
(* starts with a digit: "1" is true, "0" is false, and any other token     *)
(* ("2", "10", "1x") makes the run fail with a syntax error.               *)
(***************************************************************************)
C13_Original == [][C13_OriginalStep]_vars

\* What C13 asks of every step (as amended).
C13_AmendedStep ==
    (Evaluating /\ IsDigitToken(maybe_expr.val))
    => /\ ret' = Running
       /\ (state' = "Active") <=> (maybe_expr.val = <<"1">>)

(***************************************************************************)
(* C13, amended.  When the expression evaluated is one token that starts   *)
(* with a digit, the evaluation never fails: the token is true if it is    *)
(* exactly "1" and false otherwise, so "0", "2", "10" and "1x" are all     *)
(* false.                                                                  *)
(***************************************************************************)
C13_DigitTokenTrueIffOne == [][C13_AmendedStep]_vars

\* `#if 10` is in hand in state Active, and the evaluation of its expression
\* is false, without an error.
C13_Witness ==
    /\ pc = "process"
    /\ state = "Active"
    /\ buf = LineIf10
    /\ name = KwIf
    /\ maybe_expr = Some(<<"1", "0">>)
    /\ evaluate(maybe_expr.val, line) = Ok(FALSE, <<>>)

(***************************************************************************)
(* Vocabulary of the properties of the evaluator: an expression            *)
(* u1 == u2 == ... == un given by its operands, each a literal 0 or 1 and  *)
(* a number of leading `!`.                                                *)
(***************************************************************************)
Operand(n, v) == [bangs |-> n, val |-> v]

OperandText(o) == [i \in 1..o.bangs |-> "!"] \o <<IF o.val THEN "1" ELSE "0">>

RECURSIVE ChainText(_)
ChainText(ops) ==
    IF Len(ops) = 1
    THEN OperandText(ops[1])
    ELSE ChainText(Front(ops)) \o <<" ", "=", "=", " ">> \o OperandText(Top(ops))

\* The value of an operand: its literal negated once per `!`.
OperandValue(o) == IF o.bangs % 2 = 1 THEN ~ o.val ELSE o.val

\* r1 = u1, r(k+1) = (rk XNOR u(k+1)): the value after the first k operands.
RECURSIVE XnorFold(_, _)
XnorFold(ops, k) ==
    IF k = 1
    THEN OperandValue(ops[1])
    ELSE XnorFold(ops, k - 1) <=> OperandValue(ops[k])

\* The operand lists of the expressions of the directive lines, after the
\* substitution of FOO.
Chains ==
    { << Operand(0, TRUE) >>,
      << Operand(0, FALSE) >>,
      << Operand(2, TRUE) >>,
      << Operand(0, FALSE), Operand(0, FALSE), Operand(0, FALSE) >>,
      << Operand(0, TRUE), Operand(1, FALSE), Operand(2, FALSE) >>,
      << Operand(1, TRUE), Operand(0, FALSE) >>,
      << Operand(1, FALSE), Operand(0, FALSE) >> }

\* What C14 asks of every step.
C14_Step ==
    \A ops \in Chains :
        (Evaluating /\ maybe_expr.val = ChainText(ops))
        => /\ ret' = Running
           /\ (state' = "Active") <=> XnorFold(ops, Len(ops))

(***************************************************************************)
(* C14.  When the expression evaluated is u1 == u2 == ... == un, each      *)
(* operand a literal 0 or 1 after some number of `!`, the evaluation does  *)
(* not fail and its value is the fold r1 = u1, r(k+1) = (rk XNOR u(k+1))   *)
(* over the operands from left to right, the value of an operand being its *)
(* literal negated once per `!` (the `!` belong to the operand, not to the *)
(* comparison that follows).                                               *)
(***************************************************************************)
C14_EqualityIsXnorFold == [][C14_Step]_vars

\* `#if 1 == !0 == !!0` is in hand in state Active, and its evaluation is
\* false: (1 XNOR 1) XNOR 0.
C14_Witness ==
    /\ pc = "process"
    /\ state = "Active"
    /\ buf = LineIfChainNot
    /\ maybe_expr = Some(ChainText(<< Operand(0, TRUE), Operand(1, FALSE), Operand(2, FALSE) >>))
    /\ evaluate(maybe_expr.val, line) = Ok(FALSE, <<>>)

(***************************************************************************)
(* Vocabulary of the properties of the stack.  blocks gains a record with  *)
(* every #if that is processed and loses its last one with every #endif    *)
(* that is processed, so Len(blocks) is the number of #if processed minus  *)
(* the number of #endif processed, and blocks[i].outer is the state the    *)
(* #if of the i-th open block was met in.                                  *)
(***************************************************************************)
OpenBlocks == Len(blocks)

\* The states the #if directives of the blocks bs were met in.
Outers(bs) == [i \in 1..Len(bs) |-> bs[i].outer]

AllActive(s) == \A i \in 1..Len(s) : s[i] = "Active"

PlainInHand == Handling /\ ~ is_directive(substr)

\* What C15 asks of every step.
C15_Step ==
    /\ ret'.tag # "Err" => Len(stack') = Len(blocks')
    /\ (PlainInHand \/ (Handling /\ name \in {KwElif, KwElse})) => stack' = stack

(***************************************************************************)
(* C15.  As long as no line has failed, the depth of the stack is the      *)
(* number of #if processed minus the number of #endif processed, which is  *)
(* the number of open blocks; and the handling of a plain line, an #elif   *)
(* or an #else leaves the stack as it is.                                  *)
(***************************************************************************)
C15_DepthIsOpenBlocks == [][C15_Step]_vars

\* Four lines were processed; two blocks are open, the inner one opened in
\* the Inactive branch of the outer one.
C15_Witness ==
    /\ pc = "read"
    /\ ret = Running
    /\ nread = 4
    /\ OpenBlocks = 2
    /\ stack = <<"Active", "Inactive">>
    /\ state = "Skip"

\* What C16 asks of every step.
C16_Step ==
    /\ ret'.tag # "Err" => stack' = Outers(blocks')
    /\ (Handling /\ is_directive(substr) /\ name = KwEndif /\ ret' = Running)
          => /\ blocks # <<>>
             /\ state' = Top(blocks).outer
             /\ stack' = Outers(Front(blocks))
             /\ Top(blocks).outer = "Inactive" => state' = "Inactive"

(***************************************************************************)
(* C16.  When the #endif of a block is processed, the state becomes the    *)
(* state the #if of the block was met in and the stack holds the states    *)
(* the #if directives of the blocks still open were met in, as it did      *)
(* before that #if (as long as no line has failed the stack is the list of *)
(* those states, which nothing inside a block changes).  A block whose #if *)
(* was met in state Inactive leaves the state Inactive.                    *)
(***************************************************************************)
C16_BlockRestoresState == [][C16_Step]_vars

\* A complete block was processed: two lines without an error, nothing
\* written, the state Active and the stack empty, as before the #if.
C16_Witness ==
    /\ pc = "read"
    /\ ret = Running
    /\ nread = 2
    /\ output = <<>>
    /\ state = "Active"
    /\ stack = <<>>
    /\ blocks = <<>>

\* What C17 asks of every state.
C17_Inv ==
    /\ state = "Active" => AllActive(stack)
    /\ state = "Inactive" => (stack # <<>> /\ Top(stack) = "Active")

\* What C17 asks of every step.
C17_Step ==
    /\ (PlainInHand /\ output' # output) => (state = "Active" /\ AllActive(stack))
    /\ (PlainInHand /\ \E i \in 1..Len(blocks) : blocks[i].outer # "Active")
          => Suppressed

(***************************************************************************)
(* C17.  In every state of a run: if the state is Active, every state on   *)
(* the stack is Active; if the state is Inactive, the stack is not empty   *)
(* and its top is Active.  And in every step: a plain line is written only *)
(* in state Active with every state on the stack Active, and a plain line  *)
(* inside a block whose #if was met in state Inactive or Skip is not       *)
(* written.                                                                *)
(***************************************************************************)
C17_ActiveOnlyUnderActive == [] C17_Inv /\ [][C17_Step]_vars

\* Three lines were processed and nothing was written: an #if that is
\* false, an #if met in its Inactive branch, and a plain line inside it.
C17_Witness ==
    /\ pc = "read"
    /\ ret = Running
    /\ nread = 3
    /\ output = <<>>
    /\ Len(blocks) = 2
    /\ Top(blocks).outer = "Inactive"
    /\ Top(blocks).dirs = <<>>
    /\ stack = <<"Active", "Inactive">>
    /\ state = "Skip"

\* What C18 asks of every step.
C18_Step ==
    (Handling /\ is_directive(substr))
    => /\ name \notin {KwIf, KwElif, KwElse, KwEndif}
             => Failed("Unrecognised preprocessor directive")
       /\ (name = KwIf /\ ~ maybe_expr.some)
             => Failed("Expected expression after #if")
       /\ (name = KwElif /\ ~ maybe_expr.some)
             => Failed("Expected expression after #elif")
       /\ (name \in {KwElse, KwEndif} /\ maybe_expr.some)
             => Failed("Unexpected expression after #else")

(***************************************************************************)
(* C18.  In every state, Inactive and Skip too, the handling of a          *)
(* directive line fails with "Unrecognised preprocessor directive" if its  *)
(* name is none of #if, #elif, #else, #endif; with "Expected expression    *)
(* after ..." if it is an #if or #elif without an expression; and with     *)
(* "Unexpected expression after #else" if it is an #else or #endif with an *)
(* expression.                                                             *)
(***************************************************************************)
C18_MalformedFailsInEveryState == [][C18_Step]_vars

\* The run failed at an #elif without an expression that was met in state
\* Skip, inside a block.
C18_Witness ==
    /\ pc = "done"
    /\ buf = LineElifNone
    /\ state = "Skip"
    /\ stack # <<>>
    /\ ret = RetErr(line, "Expected expression after #elif")

(***************************************************************************)
(* Vocabulary of the properties of the split of a directive line.          *)
(***************************************************************************)
\* The index of the first whitespace character of s from i on; Len(s) + 1
\* if there is none.
RECURSIVE first_whitespace(_, _)
first_whitespace(s, i) ==
    IF i > Len(s) \/ s[i] \in WhiteSpace THEN i ELSE first_whitespace(s, i + 1)

\* s without everything from its first // on.
Uncommented(s) ==
    IF find_from(s, <<"/", "/">>, 1) = 0
    THEN s
    ELSE SubSeq(s, 1, find_from(s, <<"/", "/">>, 1) - 1)

\* The text of s up to its first whitespace character.
KeywordOf(s) == SubSeq(s, 1, first_whitespace(s, 1) - 1)

\* The text of s after its keyword, trimmed; None if that is empty.
ExpressionOf(s) ==
    IF trim(SubSeq(s, first_whitespace(s, 1), Len(s))) = <<>>
    THEN None
    ELSE Some(trim(SubSeq(s, first_whitespace(s, 1), Len(s))))

(***************************************************************************)
(* C19.  On the directive line in hand, the name is the text before the    *)
(* first whitespace character (space or tab) of the line without its //    *)
(* comment, and the expression is the rest, trimmed, absent if empty: so   *)
(* `#if<TAB>1` has the name #if and the expression 1, and `#endif // note` *)
(* has the name #endif and no expression.                                  *)
(***************************************************************************)
C19_SplitAtAnyWhitespace ==
    (pc = "process" /\ is_directive(substr))
    => /\ name = KeywordOf(Uncommented(substr))
       /\ maybe_expr = ExpressionOf(Uncommented(substr))
       /\ buf = LineIfTab1 => (name = KwIf /\ maybe_expr = Some(<<"1">>))
       /\ buf = LineEndifNote => (name = KwEndif /\ maybe_expr = None)

(***************************************************************************)
(* C20.  On the line in hand every macro name of the line read has been    *)
(* replaced by the macro's value once, and the value stands in the line as *)
(* it is in the table, the macro names it holds included: ` FOO x` has     *)
(* become FOO's value between ` ` and ` x`, and `FOO-BAR`, with both       *)
(* macros, FOO's value, `-`, and BAR's value.                              *)
(***************************************************************************)
C20_SinglePass ==
    pc = "process" =>
        /\ (buf = LinePlainFoo /\ Defined(FOO))
              => new_line = <<" ">> \o ValueOf(FOO) \o <<" ", "x", "\n">>
        /\ (buf = LineFooMinusBar /\ Defined(FOO) /\ Defined(BAR))
              => new_line = ValueOf(FOO) \o <<"-">> \o ValueOf(BAR) \o <<"\n">>

\* With FOO = `FOO BAR` and BAR = `x`, the line ` FOO x` has become
\* ` FOO BAR x`: the names FOO and BAR of the value stand in it unreplaced.
C20_Witness ==
    /\ pc = "process"
    /\ buf = LinePlainFoo
    /\ Defined(BAR)
    /\ ValueOf(FOO) = <<"F", "O", "O", " ", "B", "A", "R">>
    /\ new_line = <<" ", "F", "O", "O", " ", "B", "A", "R", " ", "x", "\n">>
    /\ WholeWordAt(new_line, 2, FOO)
    /\ WholeWordAt(new_line, 6, BAR)

====
